---- MODULE Spec2Model ----
(***************************************************************************)
(* Model of streamlit_app.py, the "Hybrid Alpha" dashboard.                *)
(*                                                                         *)
(* Two specifications share this module.                                   *)
(*   Spec      the Streamlit session: every script run from the password   *)
(*             gate to the last section, the session state, the keyless    *)
(*             widgets and the cache of get_live_and_history.              *)
(*   SpecCalc  the arithmetic of the script taken as pure functions of     *)
(*             their inputs: the wind curve, the live dispatch block,      *)
(*             calc_alpha and the 6-month / 1-year boxes.                  *)
(*                                                                         *)
(* Number representation.  The script computes in floats; the model is     *)
(* exact.  A fraction is a record [n, d] with d > 0.                       *)
(*   hp_cents   is held in tenths of a cent        (slider step 0.1)       *)
(*   m_eff      is held in halves of a J/TH        (slider step 0.5)       *)
(*   m_cost_th  is held in tenths of a dollar      (slider step 0.5)       *)
(*   ws         is held in tenths of a km/h                                *)
(*   breakeven  is the fraction 250*hp / (3*eff) of these units, which is  *)
(*              (1e6 / m_eff) * (hp_cents / 100) / 24                      *)
(*   hourly and period dollars of the dispatch are held multiplied by the  *)
(*              denominator of breakeven ("scaled dollars")                *)
(***************************************************************************)
EXTENDS Integers, Sequences, FiniteSets, TLC

VARIABLES session, widgets, cache, run, fb_first, fn

vars == <<session, widgets, cache, run, fb_first, fn>>

(***************************************************************************)
(* Bounds of the model                                                     *)
(***************************************************************************)
\* longest price series handed to calc_alpha in SpecCalc
MaxLen == 2
\* length of the fallback price series (168 points in the source, line 106)
FallbackLen == 2

(***************************************************************************)
(* Constants of the program                                                *)
(***************************************************************************)
DASHBOARD_PASSWORD == "123"

BASE_1y_grid_solar == 8250000
BASE_1y_grid_wind == 12400000
BASE_1y_mining_per_mw == 222857
BASE_1y_batt_per_mw == 45000
BASE_6m_grid_solar == 4100000
BASE_6m_grid_wind == 6150000
BASE_6m_mining_per_mw == 111428
BASE_6m_batt_per_mw == 22500

\* fallback weather of get_live_and_history: 795.0 W/m2 and 22.0 km/h
FALLBACK_GHI == 795
FALLBACK_WS == 220

\* widget defaults
DEFAULT_solar_s == 100
DEFAULT_wind_s == 100
DEFAULT_miner_n == 35
DEFAULT_batt_n == 60
DEFAULT_m_cost_th == 150
DEFAULT_hp_cents == 40
DEFAULT_m_eff == 38

(***************************************************************************)
(* Arithmetic helpers                                                      *)
(***************************************************************************)
Min(a, b) == IF a <= b THEN a ELSE b

Max(a, b) == IF a >= b THEN a ELSE b

Abs(a) == IF a < 0 THEN -a ELSE a

Frac(n, d) == [n |-> n, d |-> d]

\* fractions over one denominator are compared by their numerators
FracEq(a, b) == IF a.d = b.d THEN a.n = b.n ELSE a.n * b.d = b.n * a.d

FracLeq(a, b) == IF a.d = b.d THEN a.n <= b.n ELSE a.n * b.d <= b.n * a.d

(***************************************************************************)
(* breakeven, line 136                                                     *)
(***************************************************************************)
Breakeven(hp_cents, m_eff) == Frac(250 * hp_cents, 3 * m_eff)

\* p < breakeven, for an integer price p
PriceBelow(p, be) == p * be.d < be.n

(***************************************************************************)
(* generation, lines 170-171                                               *)
(***************************************************************************)
\* s_gen = min(solar_cap * (ghi / 1000.0) * 0.85, solar_cap) if ghi > 0 else 0
SGen(ghi, solar_cap) ==
    IF ghi > 0
    THEN IF solar_cap * ghi * 85 <= solar_cap * 100000
         THEN Frac(solar_cap * ghi * 85, 100000)
         ELSE Frac(solar_cap, 1)
    ELSE Frac(0, 1)

\* w_gen; ws/3.6 < 3 is ws < 10.8 and ws/3.6 >= 12 is ws >= 43.2;
\* ((ws/3.6) - 3) / 9 is (ws - 10.8) / 32.4
WGen(ws, wind_cap) ==
    IF ws < 108 THEN Frac(0, 1)
    ELSE IF ws >= 432 THEN Frac(wind_cap, 1)
    ELSE Frac((ws - 108) * (ws - 108) * (ws - 108) * wind_cap, 324 * 324 * 324)

(***************************************************************************)
(* live dispatch block, lines 174-179 (money in scaled dollars)            *)
(***************************************************************************)
LiveDispatch(current_price, be, miner_mw, batt_mw, total_gen) ==
    IF PriceBelow(current_price, be)
    THEN [m_load   |-> Min(miner_mw, total_gen),
          g_export |-> Max(0, total_gen - miner_mw),
          m_alpha  |-> Min(miner_mw, total_gen) * (be.n - Max(0, current_price) * be.d),
          b_alpha  |-> 0]
    ELSE [m_load   |-> 0,
          g_export |-> total_gen,
          m_alpha  |-> 0,
          b_alpha  |-> batt_mw * current_price * be.d]

(***************************************************************************)
(* calc_alpha, lines 193-201 (money in scaled dollars)                     *)
(***************************************************************************)
\* accumulators whose grid base does not start at 0
CalcInitMutBase == [ma |-> 0, ba |-> 0, base |-> 1]

\* ma, ba, base = 0, 0, 0
CalcInit == [ma |-> 0, ba |-> 0, base |-> 0]

\* what one pass of the loop body adds to ma, ba and base
CalcPoint(p, be, m_mw, b_mw, gen_mw) ==
    [base |-> gen_mw * p * be.d,
     ma   |-> IF PriceBelow(p, be) THEN m_mw * (be.n - Max(0, p) * be.d) ELSE 0,
     ba   |-> IF PriceBelow(p, be)
              THEN IF p < 0 THEN Min(b_mw, Max(0, gen_mw - m_mw)) * Abs(p) * be.d ELSE 0
              ELSE b_mw * p * be.d]

CalcAdd(acc, pt) ==
    [ma |-> acc.ma + pt.ma, ba |-> acc.ba + pt.ba, base |-> acc.base + pt.base]

(***************************************************************************)
(* the Last 6 Months and Last 1 Year boxes, lines 144 and 216-217.         *)
(* mining is held in tenths of a dollar (the factor 0.4), grid in          *)
(* hundredths (solar_cap / 100).                                           *)
(***************************************************************************)
AnnAlpha10(miner_mw) == BASE_1y_mining_per_mw * miner_mw * 4

Box6m(solar_cap, wind_cap, miner_mw, batt_mw) ==
    [mining10 |-> BASE_6m_mining_per_mw * miner_mw * 4,
     battery  |-> BASE_6m_batt_per_mw * batt_mw,
     grid100  |-> (BASE_6m_grid_solar + BASE_6m_grid_wind) * solar_cap]

Box1y(solar_cap, wind_cap, miner_mw, batt_mw) ==
    [mining10 |-> AnnAlpha10(miner_mw),
     battery  |-> BASE_1y_batt_per_mw * batt_mw,
     grid100  |-> (BASE_1y_grid_solar + BASE_1y_grid_wind) * solar_cap]

(***************************************************************************)
(* SpecCalc: the arithmetic as pure functions of bounded inputs.           *)
(* fn.task says which function the run applies:                            *)
(*   "calc"     the live dispatch block at the last price of a series,     *)
(*              then calc_alpha over the series, one loop pass per step    *)
(*   "wind"     w_gen                                                      *)
(*   "project"  the Last 6 Months and Last 1 Year boxes                    *)
(***************************************************************************)
ZeroLive == [m_load |-> 0, g_export |-> 0, m_alpha |-> 0, b_alpha |-> 0]

ZeroBox == [mining10 |-> 0, battery |-> 0, grid100 |-> 0]

FnNull ==
    [task |-> "none", pc |-> "idle", series |-> <<>>, hp |-> DEFAULT_hp_cents,
     eff |-> DEFAULT_m_eff, miner |-> 0, batt |-> 0, gen |-> 0, solar |-> 0,
     wind |-> 0, ws |-> 0, idx |-> 1, acc |-> CalcInit, step |-> CalcInit,
     live |-> ZeroLive, ret |-> CalcInit, wout |-> Frac(0, 1),
     box6 |-> ZeroBox, box1 |-> ZeroBox]

CalcPrices == {-10, 0, 20, 50, 90}

CalcSeries == UNION {[1..k -> CalcPrices] : k \in 0..MaxLen}

\* (hp_cents, m_eff): 3.0 c and 25.0 J/TH give breakeven 50 exactly,
\* the defaults 4.0 c and 19.0 J/TH give 87.72
CalcEconomics == {<<30, 50>>, <<DEFAULT_hp_cents, DEFAULT_m_eff>>}

CalcMiner == {0, 35, 60}

CalcBatt == {0, 60}

CalcGen == {0, 20, 50}

WindSpeeds == {0, 100, 107, 108, 216, 431, 432, 900, 901, 1000}

WindCaps == {0, 30, 60}

ProjCaps == {0, 25, 50, 100}

FnBe == Breakeven(fn.hp, fn.eff)

InitCalc ==
    /\ session = <<>> /\ widgets = <<>> /\ cache = <<>> /\ run = <<>> /\ fb_first = <<>>
    /\ \/ \E s \in CalcSeries, e \in CalcEconomics, m \in CalcMiner,
             b \in CalcBatt, g \in CalcGen :
             fn = [FnNull EXCEPT !.task = "calc",
                                 !.pc = IF Len(s) > 0 THEN "live" ELSE "loop",
                                 !.series = s, !.hp = e[1], !.eff = e[2],
                                 !.miner = m, !.batt = b, !.gen = g]
       \/ \E w \in WindSpeeds, c \in WindCaps :
             fn = [FnNull EXCEPT !.task = "wind", !.pc = "apply", !.ws = w, !.wind = c]
       \/ \E sc \in ProjCaps, wc \in ProjCaps, m \in CalcMiner, b \in CalcBatt :
             fn = [FnNull EXCEPT !.task = "project", !.pc = "apply", !.solar = sc,
                                 !.wind = wc, !.miner = m, !.batt = b]

\* lines 109 and 174-179: current_price is the last point of the series
FnLive ==
    /\ fn.task = "calc" /\ fn.pc = "live"
    /\ fn' = [fn EXCEPT !.pc = "loop",
                        !.live = LiveDispatch(fn.series[Len(fn.series)], FnBe,
                                              fn.miner, fn.batt, fn.gen)]
    /\ UNCHANGED <<session, widgets, cache, run, fb_first>>

\* lines 195-200: one pass of "for p in p_series"
FnCalcStep ==
    /\ fn.task = "calc" /\ fn.pc = "loop" /\ fn.idx <= Len(fn.series)
    /\ LET pt == CalcPoint(fn.series[fn.idx], FnBe, fn.miner, fn.batt, fn.gen)
       IN fn' = [fn EXCEPT !.idx = fn.idx + 1, !.step = pt, !.acc = CalcAdd(fn.acc, pt)]
    /\ UNCHANGED <<session, widgets, cache, run, fb_first>>

\* line 201: return ma, ba, base
FnCalcReturn ==
    /\ fn.task = "calc" /\ fn.pc = "loop" /\ fn.idx > Len(fn.series)
    /\ fn' = [fn EXCEPT !.pc = "returned", !.ret = fn.acc]
    /\ UNCHANGED <<session, widgets, cache, run, fb_first>>

FnWind ==
    /\ fn.task = "wind" /\ fn.pc = "apply"
    /\ fn' = [fn EXCEPT !.pc = "returned", !.wout = WGen(fn.ws, fn.wind)]
    /\ UNCHANGED <<session, widgets, cache, run, fb_first>>

FnProject ==
    /\ fn.task = "project" /\ fn.pc = "apply"
    /\ fn' = [fn EXCEPT !.pc = "returned",
                        !.box6 = Box6m(fn.solar, fn.wind, fn.miner, fn.batt),
                        !.box1 = Box1y(fn.solar, fn.wind, fn.miner, fn.batt)]
    /\ UNCHANGED <<session, widgets, cache, run, fb_first>>

NextCalc == FnLive \/ FnCalcStep \/ FnCalcReturn \/ FnWind \/ FnProject

SpecCalc == InitCalc /\ [][NextCalc]_vars

(***************************************************************************)
(* Spec: the Streamlit session.                                            *)
(*                                                                         *)
(* session   st.session_state: a function from the keys present to their   *)
(*           values ("password_correct" and the four keyed widgets)        *)
(* widgets   the keyless widgets: the password text input and the          *)
(*           hashprice, efficiency and miner cost sliders                  *)
(* cache     st.cache_data of get_live_and_history: <<>> or <<result>>     *)
(* run       the script run in progress: its position pc and its locals    *)
(* fb_first  what the first failing call of get_live_and_history returned  *)
(*           (<<>> before it): the value later failing calls are compared  *)
(*           with                                                          *)
(*                                                                         *)
(* A script run is the steps Gate, Fetch, Sidebar, Config, Capex,          *)
(* Optimize, Live, History.  The dollar figures of lines 174-179 and       *)
(* 193-204 are functions of run.current_price, run.breakeven, the          *)
(* capacities and s_gen + w_gen; they are only displayed, and their        *)
(* arithmetic is checked under SpecCalc.                                   *)
(***************************************************************************)
EmptySession == [k \in {} |-> FALSE]

WidgetKeys == {"solar_s", "wind_s", "miner_n", "batt_n"}

WidgetDefault(k) ==
    CASE k = "solar_s" -> DEFAULT_solar_s
      [] k = "wind_s" -> DEFAULT_wind_s
      [] k = "miner_n" -> DEFAULT_miner_n
      [] k = "batt_n" -> DEFAULT_batt_n

\* what the user may set a widget to: the sliders run from 0 to 1000, the two
\* number inputs have no min_value
WidgetChoices(k) ==
    CASE k = "solar_s" -> {0, DEFAULT_solar_s}
      [] k = "wind_s" -> {0, DEFAULT_wind_s}
      [] k = "miner_n" -> {-5, 0, DEFAULT_miner_n}
      [] k = "batt_n" -> {0, DEFAULT_batt_n}

HpChoices == {30, DEFAULT_hp_cents}

EffChoices == {DEFAULT_m_eff, 50}

PwdChoices == {"", DASHBOARD_PASSWORD, "bad"}

\* what the two HTTP calls may return when they succeed: HB_WEST prices (none
\* when the filter of line 97 matches no row), irradiance and wind speed
LiveData ==
    {[prices |-> <<20, 90>>, ghi |-> 500, ws |-> 216],
     [prices |-> <<50, -10>>, ghi |-> 0, ws |-> 1000],
     [prices |-> <<>>, ghi |-> 1500, ws |-> 100]}

\* the values np.random.uniform(15, 45, ...) is sampled at
FallbackPrices == {15, 30}

\* line 106: pd.Series(np.random.uniform(15, 45, 168)), 795.0, 22.0
FallbackData ==
    {[prices |-> s, ghi |-> FALLBACK_GHI, ws |-> FALLBACK_WS] :
        s \in [1..FallbackLen -> FallbackPrices]}

ZeroData == [prices |-> <<>>, ghi |-> 0, ws |-> 0]

NewRun(via) ==
    [pc |-> "gate", via |-> via, entry |-> FALSE, failed |-> FALSE, data |-> ZeroData,
     current_price |-> 0, solar_cap |-> 0, wind_cap |-> 0, miner_mw |-> 0,
     batt_mw |-> 0, hp_cents |-> 0, m_eff |-> 0, breakeven |-> Frac(0, 1),
     total_capex |-> Frac(0, 1), ann_alpha10 |-> 0, curr_val |-> 0, ideal_val |-> 0,
     s_gen |-> Frac(0, 1), w_gen |-> Frac(0, 1), mining |-> FALSE,
     box6 |-> ZeroBox, box1 |-> ZeroBox, err |-> ""]

Flag(s) == "password_correct" \in DOMAIN s /\ s["password_correct"]

SetKey(s, k, v) == [x \in DOMAIN s \cup {k} |-> IF x = k THEN v ELSE s[x]]

\* lines 26-85: the session state check_password leaves and what happens next:
\* "true" (line 29), "rerun" (lines 81-82) or "false" (line 85)
CheckPassword(s, pwd) ==
    LET s1 == IF "password_correct" \in DOMAIN s THEN s
              ELSE SetKey(s, "password_correct", FALSE)
    IN IF s1["password_correct"] THEN [session |-> s1, result |-> "true"]
       ELSE IF pwd = DASHBOARD_PASSWORD
            THEN [session |-> SetKey(s1, "password_correct", TRUE), result |-> "rerun"]
            ELSE [session |-> s1, result |-> "false"]

\* a reset that clears the whole session state
ResetKeysAll(s) == EmptySession

\* lines 115-116: delete every key except password_correct
ResetKeys(s) == [k \in DOMAIN s \cap {"password_correct"} |-> s[k]]

\* a keyed widget returns the value under its key, and registers its default
\* under the key when the key is absent
WidgetValue(s, k) == IF k \in DOMAIN s THEN s[k] ELSE WidgetDefault(k)

RegisterWidgets(s) ==
    [k \in DOMAIN s \cup WidgetKeys |-> IF k \in DOMAIN s THEN s[k] ELSE WidgetDefault(k)]

\* Python raises ZeroDivisionError when a divisor it evaluates is 0
RaisesZeroDivision(divisors) == 0 \in divisors

\* line 143, in dollars: (miner_mw * 1000000) / m_eff * m_cost_th
TotalCapex(miner_mw, m_eff, m_cost_th) == Frac(miner_mw * 200000 * m_cost_th, m_eff)

\* lines 142-146: m_eff always, ann_alpha and total_capex behind their guards
CapexDivisors(miner_mw, m_eff, m_cost_th) ==
    {m_eff}
    \cup (IF AnnAlpha10(miner_mw) > 0 THEN {AnnAlpha10(miner_mw)} ELSE {})
    \cup (IF TotalCapex(miner_mw, m_eff, m_cost_th).n > 0
          THEN {TotalCapex(miner_mw, m_eff, m_cost_th).n} ELSE {})

\* line 156: int((solar_cap + wind_cap) * 0.20), int((solar_cap + wind_cap) * 0.30)
IdealM(solar_cap, wind_cap) == ((solar_cap + wind_cap) * 20) \div 100

IdealB(solar_cap, wind_cap) == ((solar_cap + wind_cap) * 30) \div 100

\* lines 157-158
CurrVal(miner_mw, batt_mw) ==
    BASE_1y_mining_per_mw * miner_mw + BASE_1y_batt_per_mw * batt_mw

IdealVal(solar_cap, wind_cap) ==
    BASE_1y_mining_per_mw * IdealM(solar_cap, wind_cap)
    + BASE_1y_batt_per_mw * IdealB(solar_cap, wind_cap)

\* line 162: ((ideal_val - curr_val) / curr_val) * 100
OptimizeDivisors(miner_mw, batt_mw) == {CurrVal(miner_mw, batt_mw)}

Idle == run.pc \in {"stopped", "done", "error"}

\* the last run drew the sidebar and the configuration widgets
DashboardShown ==
    run.pc = "done" \/ (run.pc = "error" /\ run.err = "ZeroDivisionError")

Init ==
    /\ session = EmptySession
    /\ widgets = [pwd |-> "", hp_cents |-> DEFAULT_hp_cents, m_eff |-> DEFAULT_m_eff,
                  m_cost_th |-> DEFAULT_m_cost_th]
    /\ cache = <<>>
    /\ run = NewRun("load")
    /\ fb_first = <<>>
    /\ fn = FnNull

(* ---- what the user and the clock do between two script runs ---- *)

\* the user submits the password text input (line 79)
UserPassword ==
    /\ run.pc = "stopped"
    /\ \E p \in PwdChoices \ {widgets.pwd} : widgets' = [widgets EXCEPT !.pwd = p]
    /\ run' = NewRun("event")
    /\ UNCHANGED <<session, cache, fb_first, fn>>

\* the user moves a keyed widget (lines 127-131)
UserKeyedWidget ==
    /\ DashboardShown
    /\ \E k \in WidgetKeys : \E v \in WidgetChoices(k) \ {session[k]} :
           session' = [session EXCEPT ![k] = v]
    /\ run' = NewRun("event")
    /\ UNCHANGED <<widgets, cache, fb_first, fn>>

\* the user moves the hashprice or the efficiency slider (lines 134-135)
UserSlider ==
    /\ DashboardShown
    /\ \/ \E h \in HpChoices \ {widgets.hp_cents} :
              widgets' = [widgets EXCEPT !.hp_cents = h]
       \/ \E e \in EffChoices \ {widgets.m_eff} :
              widgets' = [widgets EXCEPT !.m_eff = e]
    /\ run' = NewRun("event")
    /\ UNCHANGED <<session, cache, fb_first, fn>>

\* the user presses Reset to Default Config (line 114)
UserReset ==
    /\ DashboardShown
    /\ run' = NewRun("reset_click")
    /\ UNCHANGED <<session, widgets, cache, fb_first, fn>>

\* the user reruns the script without changing anything
UserRerun ==
    /\ Idle
    /\ run' = NewRun("event")
    /\ UNCHANGED <<session, widgets, cache, fb_first, fn>>

\* ttl=300 (line 90): the cached result expires
CacheExpire ==
    /\ Idle
    /\ cache # <<>>
    /\ cache' = <<>>
    /\ UNCHANGED <<session, widgets, run, fb_first, fn>>

(* ---- the steps of one script run ---- *)

\* line 87: if not check_password(): st.stop()
Gate ==
    /\ run.pc = "gate"
    /\ LET r == CheckPassword(session, widgets.pwd)
       IN /\ session' = r.session
          /\ run' = CASE r.result = "true" ->
                             [run EXCEPT !.pc = "fetch", !.entry = Flag(session)]
                      [] r.result = "rerun" -> NewRun("rerun_password")
                      [] OTHER -> [run EXCEPT !.pc = "stopped"]
    /\ UNCHANGED <<widgets, cache, fb_first, fn>>

\* lines 90-109, the cached result still valid
FetchCached ==
    /\ run.pc = "fetch"
    /\ cache # <<>>
    /\ run' = IF cache[1].prices = <<>>
              THEN [run EXCEPT !.pc = "error", !.err = "IndexError", !.data = cache[1]]
              ELSE [run EXCEPT !.pc = "sidebar", !.data = cache[1],
                               !.current_price = cache[1].prices[Len(cache[1].prices)]]
    /\ UNCHANGED <<session, widgets, cache, fb_first, fn>>

\* lines 90-109, the body of get_live_and_history runs: the try block
\* succeeds, or anything in it raises and line 106 returns the fallback
FetchCall ==
    /\ run.pc = "fetch"
    /\ cache = <<>>
    /\ \E ok \in BOOLEAN : \E d \in (IF ok THEN LiveData ELSE FallbackData) :
          /\ cache' = <<d>>
          /\ fb_first' = IF ~ok /\ fb_first = <<>> THEN <<d>> ELSE fb_first
          /\ run' = IF d.prices = <<>>
                    THEN [run EXCEPT !.pc = "error", !.err = "IndexError",
                                     !.data = d, !.failed = ~ok]
                    ELSE [run EXCEPT !.pc = "sidebar", !.data = d, !.failed = ~ok,
                                     !.current_price = d.prices[Len(d.prices)]]
    /\ UNCHANGED <<session, widgets, fn>>

\* lines 112-121
Sidebar ==
    /\ run.pc = "sidebar"
    /\ IF run.via = "reset_click"
       THEN /\ session' = ResetKeys(session)
            /\ run' = NewRun("rerun_reset")
       ELSE /\ run' = [run EXCEPT !.pc = "config"]
            /\ UNCHANGED session
    /\ UNCHANGED <<widgets, cache, fb_first, fn>>

\* lines 124-137
Config ==
    /\ run.pc = "config"
    /\ session' = RegisterWidgets(session)
    /\ run' = [run EXCEPT !.pc = "capex",
                          !.solar_cap = WidgetValue(session, "solar_s"),
                          !.wind_cap = WidgetValue(session, "wind_s"),
                          !.miner_mw = WidgetValue(session, "miner_n"),
                          !.batt_mw = WidgetValue(session, "batt_n"),
                          !.hp_cents = widgets.hp_cents,
                          !.m_eff = widgets.m_eff,
                          !.breakeven = Breakeven(widgets.hp_cents, widgets.m_eff)]
    /\ UNCHANGED <<widgets, cache, fb_first, fn>>

\* lines 140-151
Capex ==
    /\ run.pc = "capex"
    /\ run' = IF RaisesZeroDivision(CapexDivisors(run.miner_mw, run.m_eff,
                                                  widgets.m_cost_th))
              THEN [run EXCEPT !.pc = "error", !.err = "ZeroDivisionError"]
              ELSE [run EXCEPT !.pc = "opt",
                               !.total_capex = TotalCapex(run.miner_mw, run.m_eff,
                                                          widgets.m_cost_th),
                               !.ann_alpha10 = AnnAlpha10(run.miner_mw)]
    /\ UNCHANGED <<session, widgets, cache, fb_first, fn>>

\* lines 154-166
Optimize ==
    /\ run.pc = "opt"
    /\ run' = IF RaisesZeroDivision(OptimizeDivisors(run.miner_mw, run.batt_mw))
              THEN [run EXCEPT !.pc = "error", !.err = "ZeroDivisionError",
                               !.curr_val = CurrVal(run.miner_mw, run.batt_mw),
                               !.ideal_val = IdealVal(run.solar_cap, run.wind_cap)]
              ELSE [run EXCEPT !.pc = "live",
                               !.curr_val = CurrVal(run.miner_mw, run.batt_mw),
                               !.ideal_val = IdealVal(run.solar_cap, run.wind_cap)]
    /\ UNCHANGED <<session, widgets, cache, fb_first, fn>>

\* lines 169-187: generation, and the branch of the live dispatch block
Live ==
    /\ run.pc = "live"
    /\ run' = [run EXCEPT !.pc = "history",
                          !.s_gen = SGen(run.data.ghi, run.solar_cap),
                          !.w_gen = WGen(run.data.ws, run.wind_cap),
                          !.mining = PriceBelow(run.current_price, run.breakeven)]
    /\ UNCHANGED <<session, widgets, cache, fb_first, fn>>

\* lines 190-217
History ==
    /\ run.pc = "history"
    /\ run' = [run EXCEPT !.pc = "done",
                          !.box6 = Box6m(run.solar_cap, run.wind_cap,
                                         run.miner_mw, run.batt_mw),
                          !.box1 = Box1y(run.solar_cap, run.wind_cap,
                                         run.miner_mw, run.batt_mw)]
    /\ UNCHANGED <<session, widgets, cache, fb_first, fn>>

Next ==
    \/ UserPassword \/ UserKeyedWidget \/ UserSlider \/ UserReset \/ UserRerun
    \/ CacheExpire
    \/ Gate \/ FetchCached \/ FetchCall \/ Sidebar \/ Config \/ Capex \/ Optimize
    \/ Live \/ History

Spec == Init /\ [][Next]_vars

(***************************************************************************)
(* The Dispatch Policy as the specification states it (section 4.3), in    *)
(* scaled dollars: what the claims C1-C3 compare the code with.            *)
(***************************************************************************)
PolicyState(p, be) ==
    IF p < 0 THEN "NEGATIVE" ELSE IF PriceBelow(p, be) THEN "LOW" ELSE "HIGH"

PolicyCharge(batt_mw, gen_mw) == Min(batt_mw, gen_mw)

PolicyMiningMw(p, be, miner_mw, batt_mw, gen_mw) ==
    CASE PolicyState(p, be) = "NEGATIVE" ->
             Min(miner_mw, Max(0, gen_mw - PolicyCharge(batt_mw, gen_mw)))
      [] PolicyState(p, be) = "LOW" -> Min(miner_mw, gen_mw)
      [] OTHER -> 0

PolicyMiningAlpha(p, be, miner_mw, batt_mw, gen_mw) ==
    CASE PolicyState(p, be) = "NEGATIVE" ->
             PolicyMiningMw(p, be, miner_mw, batt_mw, gen_mw) * be.n
      [] PolicyState(p, be) = "LOW" ->
             PolicyMiningMw(p, be, miner_mw, batt_mw, gen_mw) * (be.n - p * be.d)
      [] OTHER -> 0

PolicyBatteryAlpha(p, be, miner_mw, batt_mw, gen_mw) ==
    CASE PolicyState(p, be) = "NEGATIVE" -> PolicyCharge(batt_mw, gen_mw) * Abs(p) * be.d
      [] PolicyState(p, be) = "LOW" -> 0
      [] OTHER -> batt_mw * p * be.d

PolicyGridBaseline(p, be, miner_mw, batt_mw, gen_mw) ==
    CASE PolicyState(p, be) = "NEGATIVE" -> 0
      [] PolicyState(p, be) = "LOW" ->
             Max(0, gen_mw - PolicyMiningMw(p, be, miner_mw, batt_mw, gen_mw)) * p * be.d
      [] OTHER -> gen_mw * p * be.d

RECURSIVE PolicyMiningTotal(_, _, _, _, _)
PolicyMiningTotal(s, be, miner_mw, batt_mw, gen_mw) ==
    IF s = <<>> THEN 0
    ELSE PolicyMiningAlpha(Head(s), be, miner_mw, batt_mw, gen_mw)
         + PolicyMiningTotal(Tail(s), be, miner_mw, batt_mw, gen_mw)

RECURSIVE PolicyBatteryGridTotal(_, _, _, _, _)
PolicyBatteryGridTotal(s, be, miner_mw, batt_mw, gen_mw) ==
    IF s = <<>> THEN 0
    ELSE PolicyBatteryAlpha(Head(s), be, miner_mw, batt_mw, gen_mw)
         + PolicyGridBaseline(Head(s), be, miner_mw, batt_mw, gen_mw)
         + PolicyBatteryGridTotal(Tail(s), be, miner_mw, batt_mw, gen_mw)

\* the live dispatch block has run, at the last price of the series
LiveDone == fn.task = "calc" /\ fn.pc \in {"loop", "returned"} /\ Len(fn.series) > 0

LivePrice == fn.series[Len(fn.series)]

\* at least one pass of calc_alpha's loop has run; fn.step is what it added
StepDone == fn.task = "calc" /\ fn.idx > 1

StepPrice == fn.series[fn.idx - 1]

\* C1: at a negative price both the live dispatch block and each pass of
\* calc_alpha give the battery priority: battery_alpha = min(battery_mw,
\* generation_mw) * |price|, mining_alpha = min(miner_mw, max(0, generation_mw
\* - charge_mw)) * breakeven, and the pass adds no grid baseline.
C1_NegativeBatteryPriority ==
    /\ (LiveDone /\ LivePrice < 0) =>
          /\ fn.live.b_alpha = PolicyBatteryAlpha(LivePrice, FnBe, fn.miner, fn.batt, fn.gen)
          /\ fn.live.m_alpha = PolicyMiningAlpha(LivePrice, FnBe, fn.miner, fn.batt, fn.gen)
    /\ (StepDone /\ StepPrice < 0) =>
          /\ fn.step.ba = PolicyBatteryAlpha(StepPrice, FnBe, fn.miner, fn.batt, fn.gen)
          /\ fn.step.ma = PolicyMiningAlpha(StepPrice, FnBe, fn.miner, fn.batt, fn.gen)
          /\ fn.step.base = 0

\* C2: the LOW/HIGH boundary is strict and the two branches compute the
\* policy's values, in the live dispatch block and in calc_alpha alike:
\* price >= breakeven gives mining load 0, mining_alpha 0, battery_alpha =
\* battery_mw * price and all generation exported; 0 <= price < breakeven gives
\* battery_alpha 0 and mining_alpha = mining_mw * (breakeven - price).
C2_StrictLowHighBoundary ==
    /\ (LiveDone /\ LivePrice >= 0) =>
          /\ fn.live.b_alpha = PolicyBatteryAlpha(LivePrice, FnBe, fn.miner, fn.batt, fn.gen)
          /\ fn.live.m_alpha = PolicyMiningAlpha(LivePrice, FnBe, fn.miner, fn.batt, fn.gen)
          /\ fn.live.m_load = PolicyMiningMw(LivePrice, FnBe, fn.miner, fn.batt, fn.gen)
          /\ PolicyState(LivePrice, FnBe) = "HIGH" => fn.live.g_export = fn.gen
    /\ (StepDone /\ StepPrice >= 0) =>
          /\ fn.step.ba = PolicyBatteryAlpha(StepPrice, FnBe, fn.miner, fn.batt, fn.gen)
          /\ fn.step.ma = PolicyMiningAlpha(StepPrice, FnBe, fn.miner, fn.batt, fn.gen)
          /\ PolicyState(StepPrice, FnBe) = "HIGH" => fn.step.base = fn.gen * StepPrice * FnBe.d

\* C3: calc_alpha is a fold of the Dispatch Policy: the mining total is the
\* sum of the per-point mining_alpha, the battery total plus the grid base is
\* the sum of the per-point battery_alpha + grid_baseline, and on a
\* one-element series calc_alpha agrees with the live dispatch block.
C3_CalcAlphaIsFold ==
    (fn.task = "calc" /\ fn.pc = "returned") =>
        /\ fn.ret.ma = PolicyMiningTotal(fn.series, FnBe, fn.miner, fn.batt, fn.gen)
        /\ fn.ret.ba + fn.ret.base =
               PolicyBatteryGridTotal(fn.series, FnBe, fn.miner, fn.batt, fn.gen)
        /\ Len(fn.series) = 1 =>
               /\ fn.ret.ma = fn.live.m_alpha
               /\ fn.ret.ba = fn.live.b_alpha

\* C9: calc_alpha over an empty price series returns zero for the mining
\* total, the battery total and the grid base, whatever the capacities and
\* the generation are.
C9_EmptySeriesZero ==
    (fn.task = "calc" /\ fn.pc = "returned" /\ fn.series = <<>>) =>
        /\ fn.ret.ma = 0 /\ fn.ret.ba = 0 /\ fn.ret.base = 0
        /\ fn.ret.ma + fn.ret.ba + fn.ret.base = 0

C9_Witness ==
    /\ fn.task = "calc" /\ fn.pc = "returned" /\ fn.series = <<>>
    /\ fn.miner = 35 /\ fn.batt = 60 /\ fn.gen = 50

\* the wind curve as the specification states it, ws in tenths of a km/h
WindClaim(ws, capacity) ==
    IF ws < 108 \/ ws > 900 THEN Frac(0, 1)
    ELSE IF ws >= 432 THEN Frac(capacity, 1)
    ELSE Frac((ws - 108) * (ws - 108) * (ws - 108) * capacity, 324 * 324 * 324)

\* C4: the wind output is 0 below 10.8 km/h and above 90 km/h, the capacity
\* from 43.2 km/h to 90 km/h, capacity * ((speed_ms - 3) / 9) ** 3 between,
\* and always lies in [0, capacity].
C4_WindCurve ==
    (fn.task = "wind" /\ fn.pc = "returned") =>
        /\ FracEq(fn.wout, WindClaim(fn.ws, fn.wind))
        /\ FracLeq(Frac(0, 1), fn.wout)
        /\ FracLeq(fn.wout, Frac(fn.wind, 1))

\* C5: the 6-month and 1-year figures scale the baseline constants linearly
\* by each capacity: grid = base_grid_solar * (solar_cap / 100) +
\* base_grid_wind * (wind_cap / 100), mining = base_mining_per_mw * miner_mw,
\* battery = base_batt_per_mw * batt_mw.
C5_ProjectionLinear ==
    (fn.task = "project" /\ fn.pc = "returned") =>
        /\ fn.box6.grid100 = BASE_6m_grid_solar * fn.solar + BASE_6m_grid_wind * fn.wind
        /\ fn.box1.grid100 = BASE_1y_grid_solar * fn.solar + BASE_1y_grid_wind * fn.wind
        /\ fn.box6.mining10 = BASE_6m_mining_per_mw * fn.miner * 10
        /\ fn.box1.mining10 = BASE_1y_mining_per_mw * fn.miner * 10
        /\ fn.box6.battery = BASE_6m_batt_per_mw * fn.batt
        /\ fn.box1.battery = BASE_1y_batt_per_mw * fn.batt

(***************************************************************************)
(* Claims about the session (Spec)                                         *)
(***************************************************************************)
\* the sections after the gate
BodyPcs == {"fetch", "sidebar", "config", "capex", "opt", "live", "history", "done", "error"}

\* the run has computed generation and the live dispatch
DispatchComputed == run.pc \in {"history", "done"}

\* C6: every percentage-delta computation is guarded against a zero
\* baseline: no run ends in a division-by-zero error, so a run whose
\* curr_val is 0 goes on to the sections after the optimisation section.
C6_ZeroBaselineGuarded == ~(run.pc = "error" /\ run.err = "ZeroDivisionError")

ValidConfiguration ==
    /\ run.solar_cap >= 0 /\ run.wind_cap >= 0
    /\ run.miner_mw >= 0 /\ run.batt_mw >= 0
    /\ run.m_eff > 0 /\ run.hp_cents > 0

\* C7: an invalid configuration (a negative capacity, a non-positive
\* efficiency or hashprice) is rejected before generation and dispatch are
\* computed: a run that has computed them read a valid configuration.
C7_InvalidConfigurationRejected == DispatchComputed => ValidConfiguration

\* C8: any two failing calls of get_live_and_history return the same price
\* series, irradiance and wind speed: a run whose call failed holds what the
\* first failing call returned.
C8_FallbackDeterministic ==
    (run.failed /\ fb_first # <<>>) => run.data = fb_first[1]

\* C10: the body after the gate runs only in a run that found
\* password_correct true when it called check_password; a run given the
\* right password sets the flag and reruns; a wrong or empty entry leaves the
\* flag false and stops; once true the flag stays true, Reset to Default
\* Config included.
C10_BodyOnlyWhenAuthenticated ==
    run.pc \in BodyPcs => (run.entry /\ Flag(session))

C10_GateStep ==
    (run.pc = "gate" /\ ~Flag(session)) =>
        /\ widgets.pwd = DASHBOARD_PASSWORD =>
               (Flag(session') /\ run'.pc = "gate" /\ run'.via = "rerun_password")
        /\ widgets.pwd # DASHBOARD_PASSWORD =>
               (~Flag(session') /\ "password_correct" \in DOMAIN session'
                /\ run'.pc = "stopped")

C10_FlagStays == Flag(session) => Flag(session')

C10_PasswordGate ==
    /\ [](C10_BodyOnlyWhenAuthenticated)
    /\ [][C10_GateStep /\ C10_FlagStays]_vars

\* a run started by Reset to Default Config has deleted the widget keys and
\* has gone through the whole body with the flag still true
C10_Witness ==
    /\ run.via = "rerun_reset" /\ run.pc = "done"
    /\ Flag(session) /\ run.entry

====
